---- MODULE Spec2Model ----
(***************************************************************************)
(* Model of app.py, the WhatsApp calorie bot: the message handler          *)
(* handle_incoming, the SQLite helpers it calls and the parsing of the     *)
(* quantity token.                                                         *)
(*                                                                         *)
(* Strings are sequences of one-character strings; the message body is     *)
(* kept as the token list `parts` the handler computes at line 227.        *)
(* Python floats are exact rationals [k, n, d] plus the special values     *)
(* nan, inf, -inf, and null for a NULL column or a Python None.            *)
(* The characters of the model are digits, lower-case letters and the      *)
(* signs '.', '/', '-', '+', ' ': exponents and '_' separators of float    *)
(* literals and the LIKE wildcards '%' and '_' are outside this alphabet.  *)
(***************************************************************************)
EXTENDS Integers, Sequences, FiniteSets, TLC

(***************************************************************************)
(* Strings                                                                 *)
(***************************************************************************)
Digits == {"0", "1", "2", "3", "4", "5", "6", "7", "8", "9"}

DigitVal(ch) ==
    CASE ch = "0" -> 0 [] ch = "1" -> 1 [] ch = "2" -> 2 [] ch = "3" -> 3
      [] ch = "4" -> 4 [] ch = "5" -> 5 [] ch = "6" -> 6 [] ch = "7" -> 7
      [] ch = "8" -> 8 [] ch = "9" -> 9

\* str.isdigit() of a token
IsDigitStr(s) == Len(s) > 0 /\ \A i \in 1..Len(s) : s[i] \in Digits

\* int(s) of a string of digits
RECURSIVE IntOfDigits(_)
IntOfDigits(s) ==
    IF s = <<>> THEN 0
    ELSE 10 * IntOfDigits(SubSeq(s, 1, Len(s) - 1)) + DigitVal(s[Len(s)])

\* " ".join(tokens)
RECURSIVE JoinSpace(_)
JoinSpace(toks) ==
    IF toks = <<>> THEN <<>>
    ELSE IF Len(toks) = 1 THEN toks[1]
    ELSE toks[1] \o <<" ">> \o JoinSpace(Tail(toks))

\* s occurs in t as a contiguous substring (SQL LIKE '%s%', python `s in t`)
Contains(t, s) ==
    \E i \in 0..(Len(t) - Len(s)) : SubSeq(t, i + 1, i + Len(s)) = s

\* ''.join(ch for ch in token if pred)
FilterChars(s, keep) == SelectSeq(s, LAMBDA ch : ch \in keep)

CountChar(s, c) == Len(SelectSeq(s, LAMBDA ch : ch = c))

(***************************************************************************)
(* Numbers: Python float / SQLite REAL                                     *)
(***************************************************************************)
RECURSIVE Gcd(_, _)
Gcd(a, b) == IF b = 0 THEN a ELSE Gcd(b, a % b)

Abs(a) == IF a < 0 THEN -a ELSE a

RECURSIVE Pow10(_)
Pow10(k) == IF k = 0 THEN 1 ELSE 10 * Pow10(k - 1)

Rat(n, d) ==
    LET g == Gcd(Abs(n), Abs(d))
        s == IF d < 0 THEN -1 ELSE 1
    IN  [k |-> "num", n |-> (s * n) \div g, d |-> (s * d) \div g]

NaN    == [k |-> "nan",  n |-> 0, d |-> 1]
PosInf == [k |-> "inf",  n |-> 1, d |-> 1]
NegInf == [k |-> "inf",  n |-> -1, d |-> 1]
Null   == [k |-> "null", n |-> 0, d |-> 1]
Zero   == Rat(0, 1)

Sign(x) == IF x.n > 0 THEN 1 ELSE IF x.n < 0 THEN -1 ELSE 0

\* x * y of two floats
FMul(x, y) ==
    IF x.k = "nan" \/ y.k = "nan" THEN NaN
    ELSE IF x.k = "inf" \/ y.k = "inf"
         THEN IF Sign(x) * Sign(y) = 0 THEN NaN
              ELSE IF Sign(x) * Sign(y) > 0 THEN PosInf ELSE NegInf
    ELSE Rat(x.n * y.n, x.d * y.d)

\* x / y of two floats, y # 0
FDiv(x, y) ==
    IF x.k = "nan" \/ y.k = "nan" THEN NaN
    ELSE IF x.k = "inf" /\ y.k = "inf" THEN NaN
    ELSE IF x.k = "inf" THEN (IF Sign(x) * (IF y.n < 0 THEN -1 ELSE 1) > 0 THEN PosInf ELSE NegInf)
    ELSE IF y.k = "inf" THEN Zero
    ELSE Rat(x.n * y.d, x.d * y.n)

\* x + y of two floats
FAdd(x, y) ==
    IF x.k = "nan" \/ y.k = "nan" THEN NaN
    ELSE IF x.k = "inf" /\ y.k = "inf" THEN (IF x.n = y.n THEN x ELSE NaN)
    ELSE IF x.k = "inf" THEN x
    ELSE IF y.k = "inf" THEN y
    ELSE Rat(x.n * y.d + y.n * x.d, x.d * y.d)

\* truth value of a float: `if qty`
Truthy(x) == ~(x.k = "num" /\ x.n = 0)

\* int(x): truncation toward zero; raises on nan, inf and None
IntRaises(x) == x.k # "num"
IntOf(x) == IF x.n >= 0 THEN x.n \div x.d ELSE -((-x.n) \div x.d)

\* a float as SQLite stores it: binding NaN stores NULL
Stored(x) == IF x.k = "nan" THEN Null ELSE x

(***************************************************************************)
(* Quantity parsing                                                        *)
(***************************************************************************)
ValueError == [ok |-> FALSE, val |-> Zero]
Parsed(v)  == [ok |-> TRUE, val |-> v]

StrNan == <<"n", "a", "n">>
StrInf == <<"i", "n", "f">>
StrInfinity == <<"i", "n", "f", "i", "n", "i", "t", "y">>

\* float(s) of an unsigned decimal literal: digits with at most one '.'
DecimalLiteral(s) ==
    /\ Len(s) > 0
    /\ \A i \in 1..Len(s) : s[i] \in Digits \cup {"."}
    /\ CountChar(s, ".") <= 1
    /\ \E i \in 1..Len(s) : s[i] \in Digits

DecimalValue(s) ==
    LET dot  == IF CountChar(s, ".") = 0 THEN Len(s) + 1
                ELSE CHOOSE i \in 1..Len(s) : s[i] = "."
        frac == Len(s) - dot
        digs == FilterChars(s, Digits)
    IN  Rat(IntOfDigits(digs), Pow10(IF frac < 0 THEN 0 ELSE frac))

\* float(s): the value, or ValueError
PyFloat(s) ==
    LET signed == Len(s) > 0 /\ s[1] \in {"+", "-"}
        neg    == Len(s) > 0 /\ s[1] = "-"
        body   == IF signed THEN Tail(s) ELSE s
    IN  IF body = StrNan THEN Parsed(NaN)
        ELSE IF body \in {StrInf, StrInfinity}
             THEN Parsed(IF neg THEN NegInf ELSE PosInf)
        ELSE IF DecimalLiteral(body)
             THEN LET v == DecimalValue(body)
                  IN  Parsed(IF neg THEN Rat(-v.n, v.d) ELSE v)
        ELSE ValueError

\* lines 235-244: the quantity of the trailing token.  "ok" with the value,
\* "fail" for the "Couldn't parse quantity" reply, "raise" when the float()
\* of line 243 raises ValueError out of the handler.
ParseQuantity(token) ==
    LET f == PyFloat(token)
    IN  IF f.ok THEN [res |-> "ok", val |-> f.val]
        ELSE LET num == FilterChars(token, Digits \cup {"."})
             IN  IF num = <<>> THEN [res |-> "fail", val |-> Zero]
                 ELSE LET g == PyFloat(num)
                      IN  IF g.ok THEN [res |-> "ok", val |-> g.val]
                          ELSE [res |-> "raise", val |-> Zero]

(***************************************************************************)
(* Names, units and the seed catalog                                       *)
(***************************************************************************)
StrApple     == <<"a", "p", "p", "l", "e">>
StrBanana    == <<"b", "a", "n", "a", "n", "a">>
StrBrownRice == <<"b", "r", "o", "w", "n", " ", "r", "i", "c", "e">>
StrEgg       == <<"e", "g", "g">>
StrOats      == <<"o", "a", "t", "s">>
StrKiwi      == <<"k", "i", "w", "i">>

UnitPiece   == <<"p", "i", "e", "c", "e">>
Unit100g    == <<"1", "0", "0", "g">>
UnitServing == <<"s", "e", "r", "v", "i", "n", "g">>

DefaultTarget == 2000

Food(id, name, unit, kcal) ==
    [id |-> id, name |-> name, unit |-> unit, kcal_per_unit |-> kcal]

NoFood == Food(0, <<>>, <<>>, Null)

\* init_db: the food_items table after seeding
seed_foods ==
    << Food(1, StrApple, UnitPiece, Rat(95, 1)),
       Food(2, StrBanana, UnitPiece, Rat(105, 1)),
       Food(3, StrBrownRice, Unit100g, Rat(111, 1)),
       Food(4, StrEgg, UnitPiece, Rat(78, 1)),
       Food(5, StrOats, Unit100g, Rat(389, 1)) >>

(***************************************************************************)
(* State                                                                   *)
(***************************************************************************)
VARIABLES
    users,          \* table users: sequence of [id, wa_number, daily_target]
    food_items,     \* table food_items, in rowid order
    logs,           \* table logs, in rowid order
    clock,          \* wall clock, in half days since the UTC epoch day
    tz,             \* offset of the server's local time from UTC, half days
    nxConfigured,   \* NUTRITIONIX_APP_ID and NUTRITIONIX_APP_KEY are both set
    useVision,      \* USE_GOOGLE_VISION
    last,           \* the message handled last and what the handler did
    tok,            \* quantity parsing on its own: the token
    parsed,         \* quantity parsing on its own: the result
    rep,            \* the same add command issued twice: what was seen
    procs           \* concurrent handlers: position and locals of each

vars == <<users, food_items, logs, clock, tz, nxConfigured, useVision,
          last, tok, parsed, rep, procs>>

\* datetime.utcnow() as a date, date.today()
UtcDate(t)   == t \div 2
LocalDate(t, off) == (t + off) \div 2

(***************************************************************************)
(* DB helpers                                                              *)
(***************************************************************************)
UserRows(us, wa) == SelectSeq(us, LAMBDA u : u.wa_number = wa)

get_or_create_user(us, wa) ==
    LET row == UserRows(us, wa)
    IN  IF row # <<>>
        THEN [users |-> us, uid |-> row[1].id, target |-> row[1].daily_target]
        ELSE [users |-> Append(us, [id |-> Len(us) + 1, wa_number |-> wa,
                                    daily_target |-> DefaultTarget]),
              uid |-> Len(us) + 1, target |-> DefaultTarget]

\* the matches with the newest row first
find_food_local_NewestFirst(foods, name) ==
    LET m == SelectSeq(foods, LAMBDA f : Contains(f.name, name))
    IN  [i \in 1..Len(m) |-> m[Len(m) + 1 - i]]

\* SELECT ... WHERE LOWER(name) LIKE %name%, no ORDER BY: SQLite scans the
\* table, so the rows come in the order of their ids
find_food_local(foods, name) ==
    SelectSeq(foods, LAMBDA f : Contains(f.name, name))

\* INSERT INTO food_items if name carried no UNIQUE constraint
insert_food_NoUnique(foods, name, unit, kcal) ==
    [ok |-> TRUE,
     food_items |-> Append(foods, Food(Len(foods) + 1, name, unit,
                                       Stored(kcal))),
     id |-> Len(foods) + 1]

\* INSERT INTO food_items under the UNIQUE constraint on name: the new
\* table and rowid, or IntegrityError
insert_food(foods, name, unit, kcal) ==
    IF \E i \in 1..Len(foods) : foods[i].name = name
    THEN [ok |-> FALSE, food_items |-> foods, id |-> 0]
    ELSE [ok |-> TRUE,
          food_items |-> Append(foods, Food(Len(foods) + 1, name, unit,
                                            Stored(kcal))),
          id |-> Len(foods) + 1]

\* SELECT id FROM food_items WHERE name = ?
food_id_by_name(foods, name) ==
    foods[CHOOSE i \in 1..Len(foods) : foods[i].name = name].id

\* logging that overwrites the user's earlier entry of the same food
log_food_local_Upsert(ls, user_id, food_id, quantity, kcal, t) ==
    IF \E i \in 1..Len(ls) : ls[i].user_id = user_id
                             /\ ls[i].food_item_id = food_id
    THEN [i \in 1..Len(ls) |->
            IF ls[i].user_id = user_id /\ ls[i].food_item_id = food_id
            THEN [ls[i] EXCEPT !.quantity = Stored(quantity),
                               !.kcal = Stored(kcal), !.timestamp = t]
            ELSE ls[i]]
    ELSE Append(ls, [id |-> Len(ls) + 1, user_id |-> user_id,
                     food_item_id |-> food_id, quantity |-> Stored(quantity),
                     kcal |-> Stored(kcal), timestamp |-> t])

log_food_local(ls, user_id, food_id, quantity, kcal, t) ==
    Append(ls, [id |-> Len(ls) + 1, user_id |-> user_id,
                food_item_id |-> food_id, quantity |-> Stored(quantity),
                kcal |-> Stored(kcal), timestamp |-> t])

\* the date filter without the user_id condition
TodayRows_AllUsers(ls, user_id, t, off) ==
    SelectSeq(ls, LAMBDA l : UtcDate(l.timestamp) = LocalDate(t, off))

\* rows of `user_id` whose date(timestamp) is the server's local date
TodayRows(ls, user_id, t, off) ==
    SelectSeq(ls, LAMBDA l : l.user_id = user_id
                             /\ UtcDate(l.timestamp) = LocalDate(t, off))

RECURSIVE SumKcal(_)
SumKcal(rows) ==
    IF rows = <<>> THEN Zero ELSE FAdd(rows[1].kcal, SumKcal(Tail(rows)))

\* SUM(kcal) skips NULL; `or 0` turns a NULL sum into 0
today_total(ls, user_id, t, off) ==
    LET rows == SelectSeq(TodayRows(ls, user_id, t, off),
                          LAMBDA l : l.kcal.k # "null")
        s    == SumKcal(rows)
    IN  IF s.k = "nan" THEN Zero ELSE s

Reverse(s) == [i \in 1..Len(s) |-> s[Len(s) + 1 - i]]

\* joined with food_items, ORDER BY l.id DESC
get_today_logs(ls, foods, user_id, t, off) ==
    LET rows == Reverse(TodayRows(ls, user_id, t, off))
    IN  [i \in 1..Len(rows) |->
            [quantity |-> rows[i].quantity,
             name |-> foods[rows[i].food_item_id].name,
             unit |-> foods[rows[i].food_item_id].unit,
             kcal |-> rows[i].kcal,
             timestamp |-> rows[i].timestamp]]

(***************************************************************************)
(* Nutrition lookup                                                        *)
(***************************************************************************)
\* what the service does with one request
NxFailures == {"network", "status", "malformed", "empty"}

NxOutcome(res, kcal, name) == [res |-> res, kcal |-> kcal, parsed_name |-> name]

\* nutritionix_query without the length test of line 158: an empty food
\* list gives a total of 0
nutritionix_query_EmptyIsZero(configured, outcome) ==
    IF ~configured
    THEN [requests |-> 0, ok |-> FALSE, kcal |-> Zero, parsed_name |-> <<>>,
          seen |-> "unconfigured"]
    ELSE IF outcome.res \in {"ok", "empty"}
    THEN [requests |-> 1, ok |-> TRUE, kcal |-> outcome.kcal,
          parsed_name |-> outcome.parsed_name, seen |-> outcome.res]
    ELSE [requests |-> 1, ok |-> FALSE, kcal |-> Zero, parsed_name |-> <<>>,
          seen |-> outcome.res]

\* nutritionix_query: requests issued, and the dict or None
nutritionix_query(configured, outcome) ==
    IF ~configured
    THEN [requests |-> 0, ok |-> FALSE, kcal |-> Zero, parsed_name |-> <<>>,
          seen |-> "unconfigured"]
    ELSE IF outcome.res = "ok"
    THEN [requests |-> 1, ok |-> TRUE, kcal |-> outcome.kcal,
          parsed_name |-> outcome.parsed_name, seen |-> "ok"]
    ELSE [requests |-> 1, ok |-> FALSE, kcal |-> Zero, parsed_name |-> <<>>,
          seen |-> outcome.res]

(***************************************************************************)
(* Main message handler                                                    *)
(***************************************************************************)
StrAdd       == <<"a", "d", "d">>
StrLog       == <<"l", "o", "g">>
StrToday     == <<"t", "o", "d", "a", "y">>
StrTotal     == <<"t", "o", "t", "a", "l">>
StrSettarget == <<"s", "e", "t", "t", "a", "r", "g", "e", "t">>
StrTarget    == <<"t", "a", "r", "g", "e", "t">>

\* the text of a reply: its template and the values formatted into it
Reply(kind, qty, name, kcal, total, target, lines) ==
    [kind |-> kind, qty |-> qty, name |-> name, kcal |-> kcal,
     total |-> total, target |-> target, lines |-> lines]

Text(kind) == Reply(kind, Null, <<>>, 0, 0, 0, <<>>)

\* the exception int(x) raises
IntExc(x) ==
    CASE x.k = "nan" -> "ValueError"
      [] x.k = "inf" -> "OverflowError"
      [] OTHER -> "TypeError"

\* what one run of the handler did, before anything is filled in
Run(us, foods, ls) ==
    [users |-> us, food_items |-> foods, logs |-> ls,
     replied |-> FALSE, reply |-> Text("none"), raised |-> "",
     state |-> "", via |-> "none",
     nxRequests |-> 0, nxSeen |-> "notcalled", catalogRead |-> FALSE,
     qty |-> Null, food_name |-> <<>>, food |-> NoFood, kcal |-> Null]

Return(r, state, reply) ==
    [r EXCEPT !.replied = TRUE, !.reply = reply, !.state = state]

Raise(r, exc) == [r EXCEPT !.raised = exc]

\* lines 278-279 and 291-292: the reply of a logged add command
LoggedReply(r, wa, uid, name, t, off) ==
    LET total == today_total(r.logs, uid, t, off)
    IN  IF IntRaises(r.kcal) THEN Raise(r, IntExc(r.kcal))
        ELSE IF IntRaises(total) THEN Raise(r, IntExc(total))
        ELSE Return(r, "Resolved",
                    Reply("Logged", r.qty, name, IntOf(r.kcal), IntOf(total),
                          get_or_create_user(r.users, wa).target, <<>>))

\* line 269: kcal per unit of an entry created from a nutrition total
PerUnit(kcal, qty) == IF Truthy(qty) THEN FDiv(kcal, qty) ELSE kcal

\* lines 255-279: the nutrition service gave a total
NutritionResolved(r0, wa, uid, nx, t, off) ==
    LET matches == find_food_local(r0.food_items, r0.food_name)
        r       == [r0 EXCEPT !.via = "nutrition", !.state = "Resolved",
                              !.kcal = nx.kcal, !.catalogRead = TRUE]
    IN  IF matches # <<>>
        THEN LoggedReply(
               [r EXCEPT !.food = matches[1],
                         !.logs = log_food_local(r.logs, uid, matches[1].id,
                                                 r.qty, nx.kcal, t)],
               wa, uid, r.food_name, t, off)
        ELSE LET ins == insert_food(r.food_items, r.food_name, UnitServing,
                                    PerUnit(nx.kcal, r.qty))
                 fid == IF ins.ok THEN ins.id
                        ELSE food_id_by_name(r.food_items, r.food_name)
             IN  LoggedReply(
                   [r EXCEPT !.food = ins.food_items[fid],
                             !.food_items = ins.food_items,
                             !.logs = log_food_local(r.logs, uid, fid,
                                                     r.qty, nx.kcal, t)],
                   wa, uid, r.food_name, t, off)

\* the kcal of a catalog entry without the per-100g branch
LocalKcal_Unscaled(food, qty) == FMul(food.kcal_per_unit, qty)

\* lines 285-289: the kcal of quantity qty of a catalog entry
LocalKcal(food, qty) ==
    IF Contains(food.unit, Unit100g)
    THEN FDiv(FMul(food.kcal_per_unit, qty), Rat(100, 1))
    ELSE FMul(food.kcal_per_unit, qty)

\* lines 281-292: fallback to the local catalog
CatalogFallback(r0, wa, uid, t, off) ==
    LET matches == find_food_local(r0.food_items, r0.food_name)
        r       == [r0 EXCEPT !.catalogRead = TRUE]
    IN  IF matches = <<>>
        THEN Return(r, "Unresolved",
                    Reply("NoLocalData", Null, r.food_name, 0, 0, 0, <<>>))
        ELSE IF matches[1].kcal_per_unit.k = "null"
        THEN Raise([r EXCEPT !.food = matches[1]], "TypeError")
        ELSE LET kcal == LocalKcal(matches[1], r.qty)
             IN  LoggedReply(
                   [r EXCEPT !.via = "catalog", !.state = "Resolved",
                             !.food = matches[1], !.kcal = kcal,
                             !.logs = log_food_local(r.logs, uid, matches[1].id,
                                                     r.qty, kcal, t)],
                   wa, uid, matches[1].name, t, off)

\* the lookup without the credentials test
AddLookup_Unguarded(configured, outcome) == nutritionix_query(TRUE, outcome)

\* lines 246-253: the nutrition service is asked only when configured
AddLookup(configured, outcome) ==
    IF configured THEN nutritionix_query(configured, outcome)
    ELSE [requests |-> 0, ok |-> FALSE, kcal |-> Zero, parsed_name |-> <<>>,
          seen |-> "notcalled"]

\* a length test that lets the two-token form through
MinAddParts_Two == 3 - 1

\* the number of tokens an add command needs (line 232)
MinAddParts == 3

\* lines 231-292: add / log
AddCommand(r, wa, uid, parts, configured, outcome, t, off) ==
    IF Len(parts) < MinAddParts THEN Return(r, "Unresolved", Text("UsageAdd"))
    ELSE
      LET q    == ParseQuantity(parts[Len(parts)])
          name == JoinSpace(SubSeq(parts, 2, Len(parts) - 1))
      IN  IF q.res = "fail" THEN Return(r, "Unresolved", Text("QtyParse"))
          ELSE IF q.res = "raise" THEN Raise(r, "ValueError")
          ELSE
            LET nx == AddLookup(configured, outcome)
                r1 == [r EXCEPT !.qty = q.val, !.food_name = name,
                                !.nxRequests = nx.requests, !.nxSeen = nx.seen]
            IN  IF nx.ok THEN NutritionResolved(r1, wa, uid, nx, t, off)
                ELSE CatalogFallback(r1, wa, uid, t, off)

\* what the image download and the labeler do with one message
Env(download, visionError, labels, nx) ==
    [download |-> download, visionError |-> visionError, labels |-> labels,
     nx |-> nx]

\* the top label taken without looking at USE_GOOGLE_VISION
PickLabel_IgnoreFlag(env, vision) ==
    IF ~env.visionError /\ env.labels # <<>> THEN env.labels[1] ELSE <<>>

\* lines 181-190: the top label, or none when the labeler is disabled,
\* fails or finds nothing
PickLabel(env, vision) ==
    IF vision /\ ~env.visionError /\ env.labels # <<>>
    THEN env.labels[1] ELSE <<>>

\* lines 171-224: a message with an image
ImageMessage(r, env, configured, vision) ==
    IF env.download = "fail" THEN Return(r, "Unresolved", Text("DownloadFailed"))
    ELSE
      LET label == PickLabel(env, vision)
      IN  IF label = <<>> THEN Return(r, "Unresolved", Text("NameTheFood"))
          ELSE
            LET nx == nutritionix_query(configured, env.nx)
                r1 == [r EXCEPT !.food_name = label, !.qty = Rat(1, 1),
                                !.nxRequests = nx.requests, !.nxSeen = nx.seen]
            IN  IF nx.ok
                THEN IF IntRaises(nx.kcal) THEN Raise(r1, IntExc(nx.kcal))
                     ELSE Return(r1, "Ambiguous",
                            Reply("Detected", Null,
                                  IF nx.parsed_name # <<>> THEN nx.parsed_name
                                  ELSE label,
                                  IntOf(nx.kcal), 0, 0, <<>>))
                ELSE
                  LET local == find_food_local(r.food_items, label)
                      r2    == [r1 EXCEPT !.catalogRead = TRUE]
                  IN  IF local # <<>>
                      THEN IF IntRaises(local[1].kcal_per_unit)
                           THEN Raise(r2, IntExc(local[1].kcal_per_unit))
                           ELSE Return([r2 EXCEPT !.food = local[1]], "Ambiguous",
                                  Reply("ThinkItIs", Null, local[1].name,
                                        IntOf(local[1].kcal_per_unit), 0, 0, <<>>))
                      ELSE Return(r2, "Ambiguous",
                             Reply("ThinkContains", Null, label, 0, 0, 0, <<>>))

\* lines 294-299: today / total
TodayCommand(r, wa, uid, t, off) ==
    LET total == today_total(r.logs, uid, t, off)
        rows  == get_today_logs(r.logs, r.food_items, uid, t, off)
        bad   == {i \in 1..Len(rows) : IntRaises(rows[i].kcal)}
    IN  IF bad # {}
        THEN Raise(r, IntExc(rows[CHOOSE i \in bad : \A j \in bad : i <= j].kcal))
        ELSE IF IntRaises(total) THEN Raise(r, IntExc(total))
        ELSE Return(r, "Report",
               Reply("Today", Null, <<>>, 0, IntOf(total),
                     get_or_create_user(r.users, wa).target,
                     [i \in 1..Len(rows) |->
                        [qty |-> rows[i].quantity, name |-> rows[i].name,
                         kcal |-> IntOf(rows[i].kcal)]]))

\* settarget that falls back to the default target when its argument is
\* rejected
TargetCommand_ResetOnBad(r, wa, parts) ==
    IF Len(parts) >= 2 /\ IsDigitStr(parts[2])
    THEN Return([r EXCEPT !.users =
                   [i \in 1..Len(r.users) |->
                      IF r.users[i].wa_number = wa
                      THEN [r.users[i] EXCEPT !.daily_target = IntOfDigits(parts[2])]
                      ELSE r.users[i]]],
                "Config", Reply("TargetSet", Null, parts[2], 0, 0, 0, <<>>))
    ELSE Return([r EXCEPT !.users =
                   [i \in 1..Len(r.users) |->
                      IF r.users[i].wa_number = wa
                      THEN [r.users[i] EXCEPT !.daily_target = DefaultTarget]
                      ELSE r.users[i]]],
                "Unresolved", Text("UsageTarget"))

\* settarget whose UPDATE has no WHERE clause
TargetCommand_AllUsers(r, wa, parts) ==
    IF Len(parts) >= 2 /\ IsDigitStr(parts[2])
    THEN Return([r EXCEPT !.users =
                   [i \in 1..Len(r.users) |->
                      [r.users[i] EXCEPT !.daily_target = IntOfDigits(parts[2])]]],
                "Config", Reply("TargetSet", Null, parts[2], 0, 0, 0, <<>>))
    ELSE Return(r, "Unresolved", Text("UsageTarget"))

\* lines 301-310: settarget / target
TargetCommand(r, wa, parts) ==
    IF Len(parts) >= 2 /\ IsDigitStr(parts[2])
    THEN Return([r EXCEPT !.users =
                   [i \in 1..Len(r.users) |->
                      IF r.users[i].wa_number = wa
                      THEN [r.users[i] EXCEPT !.daily_target = IntOfDigits(parts[2])]
                      ELSE r.users[i]]],
                "Config", Reply("TargetSet", Null, parts[2], 0, 0, 0, <<>>))
    ELSE Return(r, "Unresolved", Text("UsageTarget"))

\* an inbound message as the webhook hands it over
Msg(num_media, media_urls, parts) ==
    [num_media |-> num_media, media_urls |-> media_urls, parts |-> parts]

\* lines 167-312
handle_incoming(us, foods, ls, configured, vision, t, off, wa, msg, env) ==
    LET u == get_or_create_user(us, wa)
        r == Run(u.users, foods, ls)
    IN  IF msg.num_media > 0 /\ msg.media_urls # <<>>
        THEN ImageMessage(r, env, configured, vision)
        ELSE IF msg.parts = <<>> THEN Return(r, "Help", Text("Commands"))
        ELSE IF msg.parts[1] \in {StrAdd, StrLog}
        THEN AddCommand(r, wa, u.uid, msg.parts, configured, env.nx, t, off)
        ELSE IF msg.parts[1] \in {StrToday, StrTotal}
        THEN TodayCommand(r, wa, u.uid, t, off)
        ELSE IF msg.parts[1] \in {StrSettarget, StrTarget}
        THEN TargetCommand(r, wa, msg.parts)
        ELSE Return(r, "Help", Text("CommandsPhoto"))

(***************************************************************************)
(* Inputs                                                                  *)
(***************************************************************************)
MaxLogs  == 2       \* rows of table logs
MaxClock == 1       \* last value of the clock

Senders   == {"wa1"}
TzOffsets == {-1, 0, 1}

StrBrown == <<"b", "r", "o", "w", "n">>
StrRice  == <<"r", "i", "c", "e">>

NxNone     == NxOutcome("network", Zero, <<>>)
NxOutcomes == {NxOutcome(f, Zero, <<>>) : f \in NxFailures}
              \cup {NxOutcome("ok", Rat(100, 1), StrKiwi)}

NoEnv == Env("ok", FALSE, <<>>, NxNone)

Add(key, name, token) == Msg(0, <<>>, <<key>> \o name \o <<token>>)

AddMsgs ==
    { Add(StrAdd, <<StrApple>>, <<"2">>),
      Add(StrLog, <<StrOats>>, <<"1", "/", "2">>),
      Add(StrAdd, <<StrKiwi>>, <<"2">>),
      Add(StrAdd, <<StrBrown, StrRice>>, <<"5", "0">>),
      Add(StrAdd, <<StrApple>>, <<"n", "a", "n">>),
      Add(StrAdd, <<StrApple>>, <<"a", "b", "c">>),
      Add(StrAdd, <<StrApple>>, <<"1", ".", "2", ".", "3">>),
      Msg(0, <<>>, <<StrAdd, StrApple>>),
      Msg(0, <<>>, <<StrLog>>) }

TodayMsgs  == {Msg(0, <<>>, <<StrToday>>), Msg(0, <<>>, <<StrTotal>>)}

TargetMsgs == {Msg(0, <<>>, <<StrSettarget, <<"1", "8", "0", "0">> >>),
               Msg(0, <<>>, <<StrTarget, <<"a", "b", "c">> >>),
               Msg(0, <<>>, <<StrSettarget>>)}

OtherMsgs  == {Msg(0, <<>>, <<>>), Msg(0, <<>>, << <<"h", "i">> >>),
               Msg(1, <<>>, << <<"h", "i">> >>)}

ImageMsgs  == {Msg(1, <<"url">>, <<>>),
               Msg(1, <<"url">>, <<StrAdd, StrApple, <<"2">> >>)}

ImageEnvs ==
    {Env("fail", FALSE, <<>>, NxNone)}
    \cup {Env("ok", TRUE, <<>>, NxNone)}
    \cup {Env("ok", FALSE, ls, nx) :
            ls \in {<<>>, <<StrApple, StrKiwi>>, <<StrKiwi>>}, nx \in NxOutcomes}

(***************************************************************************)
(* Specification: messages handled one at a time                           *)
(***************************************************************************)
NoLast ==
    [wa |-> "", msg |-> Msg(0, <<>>, <<>>), appended |-> 0, created |-> 0,
     replies |-> 0, reply |-> Text("none"), raised |-> "", state |-> "init",
     via |-> "none", nxRequests |-> 0, nxSeen |-> "notcalled",
     catalogRead |-> FALSE, download |-> "ok", labelled |-> FALSE,
     qty |-> Null, food_name |-> <<>>, food |-> NoFood, kcal |-> Null]

NoParse == [res |-> "none", val |-> Zero]

NoRepeat ==
    [phase |-> 0, wa |-> "", msg |-> Msg(0, <<>>, <<>>), rows |-> 0,
     before |-> Zero, kcal |-> Null, ok |-> FALSE, utc |-> 0, local |-> 0]

InitDb ==
    /\ users = <<>>
    /\ food_items = seed_foods
    /\ logs = <<>>

\* a server on UTC at one instant, with either setting of the credentials
\* and of the vision flag; SpecRepeat lets the clock run and the zone vary
Init ==
    /\ InitDb
    /\ clock = 0
    /\ tz = 0
    /\ nxConfigured \in BOOLEAN
    /\ useVision \in BOOLEAN
    /\ last = NoLast
    /\ tok = <<>>
    /\ parsed = NoParse
    /\ rep = NoRepeat
    /\ procs = <<>>

\* the webhook handles message msg of sender wa; env is what the outside
\* world does while it is handled
Receive(wa, msg, env) ==
    /\ Len(logs) < MaxLogs
    /\ \E r \in {handle_incoming(users, food_items, logs, nxConfigured,
                                 useVision, clock, tz, wa, msg, env)} :
        /\ users' = r.users
        /\ food_items' = r.food_items
        /\ logs' = r.logs
        /\ last' = [wa |-> wa, msg |-> msg,
                    appended |-> Len(r.logs) - Len(logs),
                    created |-> Len(r.food_items) - Len(food_items),
                    replies |-> IF r.replied THEN 1 ELSE 0,
                    reply |-> r.reply, raised |-> r.raised, state |-> r.state,
                    via |-> r.via, nxRequests |-> r.nxRequests,
                    nxSeen |-> IF r.nxSeen \in NxFailures THEN "failed"
                               ELSE r.nxSeen,
                    catalogRead |-> r.catalogRead,
                    download |-> env.download,
                    labelled |-> useVision /\ ~env.visionError
                                 /\ env.labels # <<>>,
                    qty |-> r.qty, food_name |-> r.food_name, food |-> r.food,
                    kcal |-> r.kcal]
        /\ UNCHANGED <<clock, tz, nxConfigured, useVision, tok, parsed, procs>>

Handle(wa, msg, env) == Receive(wa, msg, env) /\ UNCHANGED rep

ReceiveAdd ==
    \E wa \in Senders, m \in AddMsgs, nx \in NxOutcomes :
        Handle(wa, m, Env("ok", FALSE, <<>>, nx))

ReceiveToday == \E wa \in Senders, m \in TodayMsgs : Handle(wa, m, NoEnv)

ReceiveTarget == \E wa \in Senders, m \in TargetMsgs : Handle(wa, m, NoEnv)

ReceiveOther == \E wa \in Senders, m \in OtherMsgs : Handle(wa, m, NoEnv)

ReceiveImage ==
    \E wa \in Senders, m \in ImageMsgs, env \in ImageEnvs : Handle(wa, m, env)

Tick ==
    /\ clock < MaxClock
    /\ clock' = clock + 1
    /\ UNCHANGED <<users, food_items, logs, tz, nxConfigured, useVision, last,
                   tok, parsed, rep, procs>>

Next ==
    \/ ReceiveAdd
    \/ ReceiveToday
    \/ ReceiveTarget
    \/ ReceiveOther
    \/ ReceiveImage

Spec == Init /\ [][Next]_vars

(***************************************************************************)
(* Properties of one handled message                                       *)
(***************************************************************************)
IsImage(msg) == msg.num_media > 0 /\ msg.media_urls # <<>>

IsAdd(msg) ==
    ~IsImage(msg) /\ msg.parts # <<>> /\ msg.parts[1] \in {StrAdd, StrLog}

Handled == last.state # "init"

\* C1: every handled message produces exactly one reply, and appends exactly
\* one log entry when it is an add command that ends Resolved and none
\* otherwise.
C1_OneReplyOneLogIffResolved ==
    Handled =>
        /\ last.replies = 1
        /\ last.appended =
             IF IsAdd(last.msg) /\ last.state = "Resolved" THEN 1 ELSE 0

\* C2: with the nutrition service unconfigured an add command that reaches
\* resolution issues no request and resolves through the catalog: the first
\* match is logged, no match ends Unresolved with "No local data".
C2_UnconfiguredResolvesLocally ==
    (~nxConfigured /\ IsAdd(last.msg) /\ last.food_name # <<>>) =>
        /\ last.nxRequests = 0
        /\ last.nxSeen = "notcalled"
        /\ LET m == find_food_local(food_items, last.food_name)
           IN  IF m # <<>>
               THEN /\ last.state = "Resolved"
                    /\ last.via = "catalog"
                    /\ last.food = m[1]
                    /\ last.appended = 1
                    /\ logs[Len(logs)].food_item_id = m[1].id
               ELSE /\ last.state = "Unresolved"
                    /\ last.reply.kind = "NoLocalData"
                    /\ last.appended = 0

C2_Witness ==
    /\ ~nxConfigured
    /\ IsAdd(last.msg)
    /\ last.via = "catalog"
    /\ last.appended = 1
    /\ last.replies = 1

\* C3: when the configured nutrition service fails, an add command does to
\* the log, the catalog and the users, and replies, exactly what it would
\* with the service unconfigured; no resolution through the service occurs.
C3_FailureLikeUnconfigured ==
    [][ (nxConfigured /\ IsAdd(last'.msg) /\ last'.nxSeen = "failed") =>
          \E r \in {handle_incoming(users, food_items, logs, FALSE, useVision,
                                    clock, tz, last'.wa, last'.msg, NoEnv)} :
              /\ logs' = r.logs
              /\ food_items' = r.food_items
              /\ users' = r.users
              /\ last'.reply = r.reply
              /\ last'.replies = (IF r.replied THEN 1 ELSE 0)
              /\ last'.raised = r.raised
              /\ last'.state = r.state
              /\ last'.via # "nutrition"
              /\ last'.catalogRead ]_vars

C3_Witness ==
    /\ nxConfigured
    /\ IsAdd(last.msg)
    /\ last.nxSeen = "failed"
    /\ last.via = "catalog"
    /\ last.appended = 1

\* C4: an add command resolved through the catalog with a numeric quantity q
\* and first match e logs kcal = e.kcal_per_unit * q / 100 when e's unit is
\* the per-100g unit and e.kcal_per_unit * q for every other unit.
C4_CatalogKcalFormula ==
    (IsAdd(last.msg) /\ last.via = "catalog" /\ last.appended = 1
       /\ last.qty.k = "num") =>
        LET e == find_food_local(food_items, last.food_name)[1]
            q == last.qty
        IN  /\ logs[Len(logs)].food_item_id = e.id
            /\ logs[Len(logs)].quantity = q
            /\ logs[Len(logs)].kcal =
                 IF e.unit = Unit100g
                 THEN FDiv(FMul(e.kcal_per_unit, q), Rat(100, 1))
                 ELSE FMul(e.kcal_per_unit, q)

C4_Witness ==
    /\ IsAdd(last.msg)
    /\ last.via = "catalog"
    /\ last.appended = 1
    /\ last.qty.k = "num"
    /\ last.food.unit = Unit100g
    /\ logs[Len(logs)].kcal = Rat(1167, 25)

\* C6 (as claimed): an add command in the two-token form whose food name
\* matches the catalog is resolved with quantity 1.0 and logs one entry.
C6_TwoTokenDefaultsToOne ==
    (IsAdd(last.msg) /\ Len(last.msg.parts) = 2
       /\ find_food_local(food_items, last.msg.parts[2]) # <<>>) =>
        /\ last.state = "Resolved"
        /\ last.appended = 1
        /\ last.qty = Rat(1, 1)

\* C6 (amended): an add command in the two-token form is answered with the
\* usage message; no quantity is defaulted, neither the nutrition service
\* nor the catalog is consulted and nothing is logged.
C6_TwoTokenIsUsage ==
    (IsAdd(last.msg) /\ Len(last.msg.parts) = 2) =>
        /\ last.replies = 1
        /\ last.reply.kind = "UsageAdd"
        /\ last.state = "Unresolved"
        /\ last.qty = Null
        /\ last.appended = 0
        /\ last.nxRequests = 0
        /\ ~last.catalogRead

C6_Witness ==
    /\ IsAdd(last.msg)
    /\ Len(last.msg.parts) = 2
    /\ find_food_local(food_items, last.msg.parts[2]) # <<>>
    /\ last.reply.kind = "UsageAdd"

\* C7: a message with an image leaves the log and the catalog as they were;
\* when the image was downloaded and the labeler is disabled, fails or finds
\* nothing, the reply asks for the food name and neither the nutrition
\* service nor the catalog is consulted.
C7_ImageNeverLogs ==
    [][ IsImage(last'.msg) =>
          /\ logs' = logs
          /\ food_items' = food_items
          /\ last'.appended = 0
          /\ last'.created = 0
          /\ (last'.download = "ok" /\ ~last'.labelled) =>
                /\ last'.reply.kind = "NameTheFood"
                /\ last'.replies = 1
                /\ last'.nxRequests = 0
                /\ ~last'.catalogRead ]_vars

C7_Witness ==
    /\ IsImage(last.msg)
    /\ ~useVision
    /\ last.download = "ok"
    /\ last.reply.kind = "NameTheFood"
    /\ Len(logs) > 0

\* C9: every handled message ends in a reply; no exception leaves the
\* handler.
C9_AlwaysReplies == Handled => (last.raised = "" /\ last.replies = 1)

(***************************************************************************)
(* Specification: the quantity parsing on its own                          *)
(***************************************************************************)
MaxTokenLen == 3

TokenChars == {"0", "1", "2", "3", ".", "/", "-", "a", "x"}

Tokens ==
    UNION {[1..k -> TokenChars] : k \in 1..MaxTokenLen}
    \cup {StrNan, StrInf, <<"1", ".", "2", ".", "3">>,
          <<"1", "0", "/", "4">>, <<"0", ".", "2", "5">>}

InitParse ==
    /\ InitDb
    /\ clock = 0
    /\ tz = 0
    /\ nxConfigured = FALSE
    /\ useVision = TRUE
    /\ last = NoLast
    /\ tok \in Tokens
    /\ parsed = NoParse
    /\ rep = NoRepeat
    /\ procs = <<>>

\* lines 235-244 applied to the trailing token
ParseToken ==
    /\ parsed.res = "none"
    /\ parsed' = ParseQuantity(tok)
    /\ UNCHANGED <<users, food_items, logs, clock, tz, nxConfigured, useVision,
                   last, tok, rep, procs>>

NextParse == ParseToken

SpecParse == InitParse /\ [][NextParse]_vars

\* the parser of the specification: digits with an optional fraction part
RefLiteral(s) ==
    /\ DecimalLiteral(s)
    /\ s[1] \in Digits
    /\ s[Len(s)] \in Digits

RefFraction(s) ==
    /\ CountChar(s, "/") = 1
    /\ LET i == CHOOSE j \in 1..Len(s) : s[j] = "/"
       IN  IsDigitStr(SubSeq(s, 1, i - 1)) /\ IsDigitStr(SubSeq(s, i + 1, Len(s)))

RefParse(s) ==
    IF RefLiteral(s) THEN [res |-> "ok", val |-> DecimalValue(s)]
    ELSE IF RefFraction(s)
    THEN LET i == CHOOSE j \in 1..Len(s) : s[j] = "/"
             a == IntOfDigits(SubSeq(s, 1, i - 1))
             b == IntOfDigits(SubSeq(s, i + 1, Len(s)))
         IN  IF b = 0 THEN [res |-> "fail", val |-> Zero]
             ELSE [res |-> "ok", val |-> Rat(a, b)]
    ELSE [res |-> "fail", val |-> Zero]

\* C5: the quantity parsed from the trailing token is the one of the
\* reference parser: the value of a literal, a / b for a fraction with
\* b # 0, and a reported parse failure for every other token.
C5_ParserAgreesWithReference ==
    parsed.res # "none" => parsed = RefParse(tok)

(***************************************************************************)
(* Specification: the same add command issued twice in a row, on a server  *)
(* whose local time may differ from UTC                                    *)
(***************************************************************************)
RepeatMsgs == { Add(StrAdd, <<StrApple>>, <<"2">>),
                Add(StrAdd, <<StrKiwi>>, <<"2">>) }

RepeatOutcomes == {NxNone, NxOutcome("ok", Rat(100, 1), StrKiwi)}

InitRepeat ==
    /\ InitDb
    /\ clock = 0
    /\ tz \in TzOffsets
    /\ nxConfigured \in BOOLEAN
    /\ useVision = TRUE
    /\ last = NoLast
    /\ tok = <<>>
    /\ parsed = NoParse
    /\ rep = NoRepeat
    /\ procs = <<>>

\* some add command handled before the pair
EarlierAdd ==
    /\ rep.phase = 0
    /\ \E wa \in Senders, m \in RepeatMsgs, nx \in RepeatOutcomes :
          Handle(wa, m, Env("ok", FALSE, <<>>, nx))

\* the first of the pair; `before` is the daily total a today command would
\* have reported just before it
IssueFirst ==
    /\ rep.phase = 0
    /\ \E wa \in Senders, m \in RepeatMsgs, nx \in RepeatOutcomes :
          /\ Receive(wa, m, Env("ok", FALSE, <<>>, nx))
          /\ rep' = [phase |-> 1, wa |-> wa, msg |-> m, rows |-> Len(logs),
                     before |-> today_total(logs,
                                    get_or_create_user(users, wa).uid, clock, tz),
                     kcal |-> last'.kcal,
                     ok |-> last'.replies = 1 /\ last'.state = "Resolved",
                     utc |-> UtcDate(clock), local |-> LocalDate(clock, tz)]

\* the same command from the same sender again
IssueAgain ==
    /\ rep.phase = 1
    /\ \E nx \in RepeatOutcomes :
          Receive(rep.wa, rep.msg, Env("ok", FALSE, <<>>, nx))
    /\ rep' = [rep EXCEPT !.phase = 2]

NextRepeat ==
    \/ EarlierAdd
    \/ IssueFirst
    \/ IssueAgain
    \/ Tick

SpecRepeat == InitRepeat /\ [][NextRepeat]_vars

\* C10: when the same add command is resolved twice in a row on the same
\* day with the same kcal, two distinct log entries are written and the
\* total reported after the second is the total before the first plus
\* twice that kcal.
C10_TwiceDoublesTotal ==
    (rep.phase = 2 /\ rep.ok /\ last.replies = 1 /\ last.state = "Resolved"
       /\ last.kcal = rep.kcal
       /\ UtcDate(clock) = rep.utc /\ LocalDate(clock, tz) = rep.local) =>
        /\ Len(logs) = rep.rows + 2
        /\ logs[rep.rows + 1].id # logs[rep.rows + 2].id
        /\ last.reply.total =
             IntOf(FAdd(rep.before, FMul(Rat(2, 1), rep.kcal)))

\* the same, for a server whose local date is the UTC date
C10_TwiceDoublesTotalUtcServer == tz = 0 => C10_TwiceDoublesTotal

(***************************************************************************)
(* Specification: add commands handled concurrently, one step per SQL      *)
(* statement                                                               *)
(***************************************************************************)
Procs == {1, 2}

RaceSenders  == {"wa1", "wa2"}
RaceMsgs     == {Add(StrAdd, <<StrKiwi>>, <<"2">>)}
RaceOutcomes == {NxNone, NxOutcome("ok", Rat(100, 1), StrKiwi),
                 NxOutcome("ok", Rat(60, 1), StrKiwi)}

Proc(wa, msg) ==
    [pc |-> "select_user", wa |-> wa, msg |-> msg, uid |-> 0, qty |-> Null,
     food_name |-> <<>>, nxOk |-> FALSE, kcal |-> Null, looked |-> FALSE,
     reread |-> FALSE, fid |-> 0, fname |-> <<>>, total |-> Zero,
     replied |-> FALSE, reply |-> Text("none"), raised |-> ""]

InitRace ==
    /\ users \in {<<>>, <<[id |-> 1, wa_number |-> "wa1",
                          daily_target |-> DefaultTarget]>>}
    /\ food_items = seed_foods
    /\ logs = <<>>
    /\ clock = 0
    /\ tz = 0
    /\ nxConfigured \in BOOLEAN
    /\ useVision = TRUE
    /\ last = NoLast
    /\ tok = <<>>
    /\ parsed = NoParse
    /\ rep = NoRepeat
    /\ procs \in [Procs -> {Proc(wa, m) : wa \in RaceSenders, m \in RaceMsgs}]

Step(p, rec) == procs' = [procs EXCEPT ![p] = rec]

Fixed == <<clock, tz, nxConfigured, useVision, last, tok, parsed, rep>>

\* line 71: SELECT of get_or_create_user
SelectUser(p) ==
    /\ procs[p].pc = "select_user"
    /\ LET row == UserRows(users, procs[p].wa)
       IN  IF row # <<>>
           THEN Step(p, [procs[p] EXCEPT !.uid = row[1].id, !.pc = "lookup"])
           ELSE Step(p, [procs[p] EXCEPT !.pc = "insert_user"])
    /\ UNCHANGED <<users, food_items, logs>>
    /\ UNCHANGED Fixed

\* lines 76-78: INSERT of get_or_create_user under UNIQUE(wa_number)
InsertUser(p) ==
    /\ procs[p].pc = "insert_user"
    /\ IF UserRows(users, procs[p].wa) # <<>>
       THEN /\ Step(p, [procs[p] EXCEPT !.pc = "failed",
                                        !.raised = "IntegrityError"])
            /\ UNCHANGED users
       ELSE /\ users' = Append(users, [id |-> Len(users) + 1,
                                       wa_number |-> procs[p].wa,
                                       daily_target |-> DefaultTarget])
            /\ Step(p, [procs[p] EXCEPT !.uid = Len(users) + 1,
                                        !.pc = "lookup"])
    /\ UNCHANGED <<food_items, logs>>
    /\ UNCHANGED Fixed

\* lines 231-253: the quantity and the nutrition lookup of an add command
Lookup(p) ==
    /\ procs[p].pc = "lookup"
    /\ \E outcome \in RaceOutcomes :
          LET parts == procs[p].msg.parts
              q     == ParseQuantity(parts[Len(parts)])
              nx    == AddLookup(nxConfigured, outcome)
          IN  IF Len(parts) < MinAddParts
              THEN Step(p, [procs[p] EXCEPT !.pc = "done", !.replied = TRUE,
                                            !.reply = Text("UsageAdd")])
              ELSE IF q.res = "fail"
              THEN Step(p, [procs[p] EXCEPT !.pc = "done", !.replied = TRUE,
                                            !.reply = Text("QtyParse")])
              ELSE IF q.res = "raise"
              THEN Step(p, [procs[p] EXCEPT !.pc = "failed",
                                            !.raised = "ValueError"])
              ELSE Step(p, [procs[p] EXCEPT
                              !.qty = q.val,
                              !.food_name = JoinSpace(SubSeq(parts, 2,
                                                             Len(parts) - 1)),
                              !.nxOk = nx.ok,
                              !.kcal = IF nx.ok THEN nx.kcal ELSE Null,
                              !.pc = IF nx.ok THEN "find_food"
                                     ELSE "fallback"])
    /\ UNCHANGED <<users, food_items, logs>>
    /\ UNCHANGED Fixed

\* lines 259-261: the catalog lookup after a nutrition success
FindFood(p) ==
    /\ procs[p].pc = "find_food"
    /\ LET matches == find_food_local(food_items, procs[p].food_name)
       IN  IF matches # <<>>
           THEN Step(p, [procs[p] EXCEPT !.looked = TRUE,
                                         !.fid = matches[1].id,
                                         !.fname = procs[p].food_name,
                                         !.pc = "log"])
           ELSE Step(p, [procs[p] EXCEPT !.looked = TRUE,
                                         !.fname = procs[p].food_name,
                                         !.pc = "insert_food"])
    /\ UNCHANGED <<users, food_items, logs>>
    /\ UNCHANGED Fixed

\* lines 267-272: the INSERT of the new catalog entry
InsertFood(p) ==
    /\ procs[p].pc = "insert_food"
    /\ \E ins \in {insert_food(food_items, procs[p].food_name, UnitServing,
                               PerUnit(procs[p].kcal, procs[p].qty))} :
          /\ food_items' = ins.food_items
          /\ IF ins.ok
             THEN Step(p, [procs[p] EXCEPT !.fid = ins.id, !.pc = "log"])
             ELSE Step(p, [procs[p] EXCEPT !.pc = "reread"])
    /\ UNCHANGED <<users, logs>>
    /\ UNCHANGED Fixed

\* lines 273-274: the losing writer reads the id of the existing row
Reread(p) ==
    /\ procs[p].pc = "reread"
    /\ Step(p, [procs[p] EXCEPT
                  !.fid = food_id_by_name(food_items, procs[p].food_name),
                  !.reread = TRUE, !.pc = "log"])
    /\ UNCHANGED <<users, food_items, logs>>
    /\ UNCHANGED Fixed

\* lines 282-289: the catalog lookup of the fallback
Fallback(p) ==
    /\ procs[p].pc = "fallback"
    /\ LET matches == find_food_local(food_items, procs[p].food_name)
       IN  IF matches = <<>>
           THEN Step(p, [procs[p] EXCEPT
                           !.pc = "done", !.replied = TRUE,
                           !.reply = Reply("NoLocalData", Null,
                                           procs[p].food_name, 0, 0, 0, <<>>)])
           ELSE IF matches[1].kcal_per_unit.k = "null"
           THEN Step(p, [procs[p] EXCEPT !.pc = "failed",
                                         !.raised = "TypeError"])
           ELSE Step(p, [procs[p] EXCEPT
                           !.fid = matches[1].id, !.fname = matches[1].name,
                           !.kcal = LocalKcal(matches[1], procs[p].qty),
                           !.pc = "log"])
    /\ UNCHANGED <<users, food_items, logs>>
    /\ UNCHANGED Fixed

\* lines 262, 276, 290: log_food_local
LogFood(p) ==
    /\ procs[p].pc = "log"
    /\ logs' = log_food_local(logs, procs[p].uid, procs[p].fid, procs[p].qty,
                              procs[p].kcal, clock)
    /\ Step(p, [procs[p] EXCEPT !.pc = "total"])
    /\ UNCHANGED <<users, food_items>>
    /\ UNCHANGED Fixed

\* lines 278, 291: today_total
Total(p) ==
    /\ procs[p].pc = "total"
    /\ Step(p, [procs[p] EXCEPT
                  !.total = today_total(logs, procs[p].uid, clock, tz),
                  !.pc = "reply"])
    /\ UNCHANGED <<users, food_items, logs>>
    /\ UNCHANGED Fixed

\* lines 279, 292: the reply, with the target read again
SendReply(p) ==
    /\ procs[p].pc = "reply"
    /\ IF IntRaises(procs[p].kcal)
       THEN Step(p, [procs[p] EXCEPT !.pc = "failed",
                                     !.raised = IntExc(procs[p].kcal)])
       ELSE IF IntRaises(procs[p].total)
       THEN Step(p, [procs[p] EXCEPT !.pc = "failed",
                                     !.raised = IntExc(procs[p].total)])
       ELSE Step(p, [procs[p] EXCEPT
                       !.pc = "done", !.replied = TRUE,
                       !.reply = Reply("Logged", procs[p].qty, procs[p].fname,
                                       IntOf(procs[p].kcal),
                                       IntOf(procs[p].total),
                                       get_or_create_user(users,
                                                          procs[p].wa).target,
                                       <<>>)])
    /\ UNCHANGED <<users, food_items, logs>>
    /\ UNCHANGED Fixed

NextRace ==
    \E p \in Procs :
        \/ SelectUser(p)
        \/ InsertUser(p)
        \/ Lookup(p)
        \/ FindFood(p)
        \/ InsertFood(p)
        \/ Reread(p)
        \/ Fallback(p)
        \/ LogFood(p)
        \/ Total(p)
        \/ SendReply(p)

SpecRace == InitRace /\ [][NextRace]_vars

NamedRows(name) == {i \in 1..Len(food_items) : food_items[i].name = name}

AllEnded == \A p \in Procs : procs[p].pc \in {"done", "failed"}

\* both handlers got a nutrition success for the same food name and reached
\* their catalog lookup
RaceCase ==
    /\ procs # <<>>
    /\ \A p \in Procs : procs[p].nxOk /\ procs[p].looked
    /\ \A p, q \in Procs : procs[p].food_name = procs[q].food_name

\* C8: when two add commands for the same unseen food name both get a
\* nutrition success and race through lookup, insert and re-read, the
\* catalog never holds two entries of that name, and once both handlers
\* have ended the catalog has exactly one, each handler holds its id, has
\* logged one entry against it and has replied without failing.
C8_CatalogRace ==
    RaceCase =>
        /\ \A p \in Procs : Cardinality(NamedRows(procs[p].food_name)) <= 1
        /\ AllEnded =>
             \A p \in Procs :
                /\ Cardinality(NamedRows(procs[p].food_name)) = 1
                /\ procs[p].fid \in NamedRows(procs[p].food_name)
                /\ procs[p].pc = "done"
                /\ procs[p].replied
                /\ procs[p].raised = ""
                /\ Len(logs) = Cardinality(Procs)
                /\ \A i \in 1..Len(logs) : logs[i].food_item_id = procs[p].fid

C8_Witness ==
    /\ RaceCase
    /\ AllEnded
    /\ \E p \in Procs : procs[p].reread
    /\ \A p, q \in Procs : procs[p].wa = procs[q].wa

(***************************************************************************)
(* Specification: two senders, their targets and their logs                *)
(***************************************************************************)
UserSenders == {"wa1", "wa2"}

Str1800 == <<"1", "8", "0", "0">>
Str1500 == <<"1", "5", "0", "0">>

UserAddMsgs == {Add(StrAdd, <<StrApple>>, <<"2">>),
                Add(StrLog, <<StrEgg>>, <<"1">>)}

UserTargetMsgs ==
    { Msg(0, <<>>, <<StrSettarget, Str1800>>),
      Msg(0, <<>>, <<StrTarget, Str1500>>),
      Msg(0, <<>>, <<StrTarget, <<"a", "b", "c">> >>),
      Msg(0, <<>>, <<StrSettarget, <<"-", "5">> >>),
      Msg(0, <<>>, <<StrSettarget, <<"1", ".", "5">> >>),
      Msg(0, <<>>, <<StrSettarget>>) }

\* a server on UTC without nutrition credentials
InitUsers ==
    /\ InitDb
    /\ clock = 0
    /\ tz = 0
    /\ nxConfigured = FALSE
    /\ useVision = FALSE
    /\ last = NoLast
    /\ tok = <<>>
    /\ parsed = NoParse
    /\ rep = NoRepeat
    /\ procs = <<>>

UserAdd == \E wa \in UserSenders, m \in UserAddMsgs : Handle(wa, m, NoEnv)

UserToday == \E wa \in UserSenders : Handle(wa, Msg(0, <<>>, <<StrToday>>), NoEnv)

UserTarget == \E wa \in UserSenders, m \in UserTargetMsgs : Handle(wa, m, NoEnv)

NextUsers ==
    \/ UserAdd
    \/ UserToday
    \/ UserTarget

SpecUsers == InitUsers /\ [][NextUsers]_vars

\* the target in force for a sender: the stored one, or the default a first
\* contact would store
TargetOf(us, wa) == get_or_create_user(us, wa).target

IsTarget(msg) ==
    ~IsImage(msg) /\ msg.parts # <<>>
    /\ msg.parts[1] \in {StrSettarget, StrTarget}

\* the argument is there and is a string of decimal digits
AcceptedTarget(msg) ==
    IsTarget(msg) /\ Len(msg.parts) >= 2 /\ IsDigitStr(msg.parts[2])

C12_ShownTargetIsLastAccepted ==
    /\ \A w \in UserSenders : TargetOf(<<>>, w) = DefaultTarget
    /\ [][ /\ \A w \in UserSenders :
                TargetOf(users', w) =
                    IF last'.wa = w /\ AcceptedTarget(last'.msg)
                    THEN IntOfDigits(last'.msg.parts[2])
                    ELSE TargetOf(users, w)
           /\ last'.reply.kind \in {"Logged", "Today"}
                => last'.reply.target = TargetOf(users', last'.wa) ]_vars

\* a reply showing a target that was set, while the other sender's differs
C12_Witness ==
    /\ last.reply.kind \in {"Logged", "Today"}
    /\ last.reply.target = 1500
    /\ \E w \in UserSenders : UserRows(users, w) # <<>>
                              /\ TargetOf(users, w) = 1800

IsToday(msg) ==
    ~IsImage(msg) /\ msg.parts # <<>> /\ msg.parts[1] \in {StrToday, StrTotal}

\* the log entries of sender wa, none when wa has no user record
OwnRows(ls, us, wa) ==
    IF UserRows(us, wa) = <<>> THEN <<>>
    ELSE SelectSeq(ls, LAMBDA l : l.user_id = UserRows(us, wa)[1].id)

\* C16: handling a message of one sender leaves every other sender's target
\* and log entries as they were, and the reply to a sender's today command is
\* the reply the same command gets when the log holds that sender's entries
\* only.
C16_SendersIndependent ==
    [][ \A b \in UserSenders :
          /\ last'.wa # b
               => /\ TargetOf(users', b) = TargetOf(users, b)
                  /\ OwnRows(logs', users', b) = OwnRows(logs, users, b)
          /\ (last'.wa = b /\ IsToday(last'.msg))
               => /\ last'.replies = 1
                  /\ last'.reply =
                       handle_incoming(users, food_items,
                                       OwnRows(logs, users, b), nxConfigured,
                                       useVision, clock, tz, b, last'.msg,
                                       NoEnv).reply ]_vars

\* a today reply of a sender, while the other sender has an entry and
\* another target
C16_Witness ==
    /\ IsToday(last.msg)
    /\ last.reply.kind = "Today"
    /\ Len(last.reply.lines) < Len(logs)
    /\ \E b \in UserSenders \ {last.wa} :
          /\ OwnRows(logs, users, b) # <<>>
          /\ TargetOf(users, b) # TargetOf(users, last.wa)

(***************************************************************************)
(* Properties of the log                                                   *)
(***************************************************************************)
\* C15: the log is append-only: every step leaves the entries already written
\* in place with all their fields, and changes the log by appending one new
\* entry or not at all.
C15_LogAppendOnly ==
    [][ \/ logs' = logs
        \/ /\ Len(logs') = Len(logs) + 1
           /\ SubSeq(logs', 1, Len(logs)) = logs ]_vars

\* an entry in the log and a later message that is not an add command
C15_Witness ==
    /\ logs # <<>>
    /\ Handled /\ ~IsAdd(last.msg)
    /\ last.appended = 0
    /\ last.state \in {"Config", "Report", "Ambiguous"}

(***************************************************************************)
(* Specification: the clock runs over several days, in any time zone       *)
(***************************************************************************)
MaxDay == 1         \* last UTC date the clock reaches

ClockAddMsgs == {Add(StrAdd, <<StrApple>>, <<"2">>),
                 Add(StrLog, <<StrOats>>, <<"1", "/", "2">>)}

InitClock ==
    /\ InitDb
    /\ clock = 0
    /\ tz \in TzOffsets
    /\ nxConfigured = FALSE
    /\ useVision = FALSE
    /\ last = NoLast
    /\ tok = <<>>
    /\ parsed = NoParse
    /\ rep = NoRepeat
    /\ procs = <<>>

ClockAdd == \E wa \in Senders, m \in ClockAddMsgs : Handle(wa, m, NoEnv)

ClockToday == \E wa \in Senders, m \in TodayMsgs : Handle(wa, m, NoEnv)

\* half a day passes
HalfDay ==
    /\ clock < 2 * MaxDay + 1
    /\ clock' = clock + 1
    /\ UNCHANGED <<users, food_items, logs, tz, nxConfigured, useVision, last,
                   tok, parsed, rep, procs>>

NextClock ==
    \/ ClockAdd
    \/ ClockToday
    \/ HalfDay

SpecClock == InitClock /\ [][NextClock]_vars

\* the entries of sender wa stamped with UTC date `day`, oldest first
EntriesOfDay(ls, us, wa, day) ==
    SelectSeq(OwnRows(ls, us, wa), LAMBDA l : UtcDate(l.timestamp) = day)

\* C18: the total in the reply to a Resolved add command includes the entry
\* the command has just written: the date the today filter selects is the
\* date of the entry's UTC stamp, so the total is the sum over the sender's
\* entries of that date, at every clock time and every zone offset.
C18_TotalIncludesNewEntry ==
    (IsAdd(last.msg) /\ last.state = "Resolved" /\ last.replies = 1
     /\ last.appended = 1)
    => LET e == logs[Len(logs)]
       IN  /\ LocalDate(e.timestamp, tz) = UtcDate(e.timestamp)
           /\ last.reply.total =
                IntOf(SumKcal(EntriesOfDay(logs, users, last.wa,
                                           UtcDate(e.timestamp))))

\* on a server whose local date is the UTC date the total includes the entry
C18_TotalIncludesNewEntryUtcServer == tz = 0 => C18_TotalIncludesNewEntry

\* the lines a today reply shows for the entries `rows`, newest first
ShownLines(rows, foods) ==
    [i \in 1..Len(rows) |->
        [qty  |-> rows[Len(rows) + 1 - i].quantity,
         name |-> foods[rows[Len(rows) + 1 - i].food_item_id].name,
         kcal |-> IntOf(rows[Len(rows) + 1 - i].kcal)]]

\* C17: a today/total command changes no log entry, catalog entry or target;
\* its reply lists exactly the sender's entries of the current day, newest
\* first, with a total equal to the sum of their kcal, and it says "No logs
\* today." (an empty list) exactly when the sender has no entry of that day.
C17_TodayListsTheDay ==
    [][ (clock' = clock /\ IsToday(last'.msg))
        => LET day == EntriesOfDay(logs, users, last'.wa, UtcDate(clock))
           IN  /\ logs' = logs
               /\ food_items' = food_items
               /\ \A w \in UserSenders : TargetOf(users', w) = TargetOf(users, w)
               /\ last'.replies = 1
               /\ last'.reply.kind = "Today"
               /\ last'.reply.lines = ShownLines(day, food_items)
               /\ last'.reply.total = IntOf(SumKcal(day))
               /\ (last'.reply.lines = <<>>) <=> (day = <<>>) ]_vars

\* on a server whose local date is the UTC date, with numeric quantities, the
\* reply lists the day
C17_TodayListsTheDayUtcServer ==
    [][ tz = 0 => C17_TodayListsTheDay!1 ]_vars

(***************************************************************************)
(* Specification: the catalog grows from nutrition totals                  *)
(***************************************************************************)
StrE == <<"e">>
StrI == <<"i">>

CatalogAddMsgs ==
    { Add(StrAdd, <<StrKiwi>>, <<"2">>),
      Add(StrAdd, <<StrKiwi>>, <<"0">>),
      Add(StrAdd, <<StrKiwi>>, <<"n", "a", "n">>),
      Add(StrAdd, <<StrApple>>, <<"-", "2">>),
      Add(StrAdd, <<StrE>>, <<"2">>),
      Add(StrLog, <<StrI>>, <<"1">>) }

CatalogOutcomes == {NxNone, NxOutcome("ok", Rat(100, 1), StrKiwi)}

InitCatalog ==
    /\ InitDb
    /\ clock = 0
    /\ tz = 0
    /\ nxConfigured \in BOOLEAN
    /\ useVision = FALSE
    /\ last = NoLast
    /\ tok = <<>>
    /\ parsed = NoParse
    /\ rep = NoRepeat
    /\ procs = <<>>

CatalogAdd ==
    \E wa \in Senders, m \in CatalogAddMsgs, nx \in CatalogOutcomes :
        Handle(wa, m, Env("ok", FALSE, <<>>, nx))

CatalogToday == \E wa \in Senders, m \in TodayMsgs : Handle(wa, m, NoEnv)

NextCatalog ==
    \/ CatalogAdd
    \/ CatalogToday

SpecCatalog == InitCatalog /\ [][NextCatalog]_vars

\* C14: every log entry has a non-negative quantity and non-negative kcal: an
\* add command whose last token denotes a negative number is not logged as
\* one.
C14_QuantitiesNonNegative ==
    \A i \in 1..Len(logs) :
        /\ logs[i].quantity.k = "num" => logs[i].quantity.n >= 0
        /\ logs[i].kcal.k = "num" => logs[i].kcal.n >= 0

\* C14, second part: the total a today command reports never decreases while
\* the date stays the same.
C14_TotalNeverDecreases ==
    [][ \A w \in Senders :
          UserRows(users, w) # <<>>
            => LET uid == UserRows(users, w)[1].id
                   old == today_total(logs, uid, clock, tz)
                   new == today_total(logs', uid, clock', tz')
               IN  (old.k = "num" /\ new.k = "num")
                     => new.n * old.d >= old.n * new.d ]_vars

\* the ids of the catalog entries whose name contains `name`
MatchIds(foods, name) ==
    {foods[i].id : i \in {j \in 1..Len(foods) : Contains(foods[j].name, name)}}

\* the catalog as it was before the message in `last`
CatalogBefore == SubSeq(food_items, 1, Len(food_items) - last.created)

\* entries that add commands created from a nutrition total
Created == {i \in 1..Len(food_items) : i > Len(seed_foods)}

\* C13: an add command with a nutrition total for a name that matches no
\* catalog entry creates exactly one entry with that name, unit "serving"
\* and kcal per unit total / quantity (the total when the quantity is 0), and
\* its log entry references it; a later add of the same name without the
\* nutrition service resolves through that entry.
C13_CreatedEntryResolvesLater ==
    /\ (IsAdd(last.msg) /\ last.nxSeen = "ok" /\ last.qty.k = "num"
        /\ MatchIds(CatalogBefore, last.food_name) = {})
       => /\ last.created = 1
          /\ LET e == food_items[Len(food_items)]
             IN  /\ e.name = last.food_name
                 /\ e.unit = UnitServing
                 /\ e.kcal_per_unit =
                      IF last.qty.n = 0 THEN last.kcal
                      ELSE Rat(last.kcal.n * last.qty.d,
                               last.kcal.d * last.qty.n)
                 /\ last.appended = 1
                 /\ logs[Len(logs)].food_item_id = e.id
    /\ \A i \in Created :
         (IsAdd(last.msg) /\ last.nxSeen # "ok" /\ last.created = 0
          /\ last.food_name = food_items[i].name)
         => /\ last.state = "Resolved"
            /\ last.via = "catalog"
            /\ last.food = food_items[i]
            /\ last.appended = 1
            /\ logs[Len(logs)].food_item_id = food_items[i].id

\* C13 holds while every created entry has a kcal per unit
C13_CreatedEntryResolvesLaterNumeric ==
    (\A i \in Created : food_items[i].kcal_per_unit.k = "num")
    => C13_CreatedEntryResolvesLater

C20_FirstContactRace ==
    (procs # <<>> /\ \A p \in Procs : procs[p].wa = "wa2")
    => /\ Len(UserRows(users, "wa2")) <= 1
       /\ \A p \in Procs :
            /\ procs[p].raised # "IntegrityError"
            /\ procs[p].pc \notin {"select_user", "insert_user"}
                 => /\ Len(UserRows(users, "wa2")) = 1
                    /\ procs[p].uid = UserRows(users, "wa2")[1].id
                    /\ UserRows(users, "wa2")[1].daily_target = DefaultTarget

\* what the UNIQUE constraint does keep: at most one record, and every
\* handler that did not fail holds its id
C20_FirstContactSurvivors ==
    (procs # <<>> /\ \A p \in Procs : procs[p].wa = "wa2")
    => /\ Len(UserRows(users, "wa2")) <= 1
       /\ \A p \in Procs :
            procs[p].pc \notin {"select_user", "insert_user", "failed"}
              => /\ Len(UserRows(users, "wa2")) = 1
                 /\ procs[p].uid = UserRows(users, "wa2")[1].id
                 /\ UserRows(users, "wa2")[1].daily_target = DefaultTarget
====
